---------------------------- MODULE Spec2Model ----------------------------
(***************************************************************************)
(* Model of the triple-check validation engine                             *)
(* (src/lead_sniper/validators/triple_check_validator.py), of the          *)
(* orchestration core (src/aether_core_system.py) and of the ingest        *)
(* watcher (src/ingest/watcher.py).                                        *)
(*                                                                         *)
(* Representation.                                                         *)
(*  - A Python str is [type |-> "str", chars |-> <<c1, ..., cn>>], a       *)
(*    sequence of one-character strings, so that strip() and the substring *)
(*    test `a in b` are computed and not assumed.  None is                 *)
(*    [type |-> "NoneType"].                                               *)
(*  - A data point (a dict) is a function whose DOMAIN is the set of keys  *)
(*    it holds; the empty dict {} is the empty function <<>>.              *)
(*  - A score is a Python number.  Every score the validator computes is a *)
(*    rational with denominator dividing Scale, and is kept here as the    *)
(*    integer score * Scale, so no comparison is rounded.  The composite   *)
(*    as the interpreter's floats give it is FloatFinalScore.              *)
(*  - datetime.now() values (the "timestamp" fields of reports, audit      *)
(*    entries and collaborator answers) are wall-clock reads; those fields *)
(*    are left out of the modelled dicts.                                  *)
(*  - The collaborators (_verify_..., _can_find_in_...) are methods a      *)
(*    caller                                                               *)
(*    may substitute; what they answer in one call is the input `ext`      *)
(*    (five validity flags) and `repro` (seven findable flags).  The       *)
(*    answers hardcoded in the source are HardcodedExt / HardcodedRepro.   *)
(*  - Concurrent callers are threads of one interpreter sharing the        *)
(*    validator.  list.append is one indivisible step of the interpreter;  *)
(*    a thread can be preempted between any two statements.  `threads`     *)
(*    holds each thread's position in validate_data_point and its locals.  *)
(*  - The core's coroutines run on one event loop: a coroutine runs        *)
(*    without interruption from one suspension (await asyncio.sleep) to    *)
(*    the next.  In the core datetime.now() is the value of `clock`, which *)
(*    each read advances.                                                  *)
(*  - The watcher's directory is whatever other processes make it between  *)
(*    two statements of the loop; a script run returns any return code.    *)
(***************************************************************************)
EXTENDS Integers, Sequences, FiniteSets

VARIABLES validation_history, rejected_data, audit_log, completed, last_call,
          threads,
          aether, coroutines, clock,
          seen, directory, watcher

\* the orchestration core (aether_core_system.py): the AETHERCore object,
\* the coroutines running its methods and the clock datetime.now() reads
aether_vars == <<aether, coroutines, clock>>

\* the watcher (ingest/watcher.py): its global seen, the directory it polls
\* and the position and locals of its loop
watcher_vars == <<seen, directory, watcher>>

vars == <<validation_history, rejected_data, audit_log, completed, last_call,
          threads, aether_vars, watcher_vars>>

---------------------------------------------------------------------------
(* Bounds of the model *)

\* calls of validate_data_point (direct or through a batch) in one session
MaxCalls == 2
\* data points handed to one generate_validation_report call
MaxBatch == 2
\* threads calling validate_data_point concurrently, once each
MaxThreads == 2
\* coroutines running a method of the one AETHERCore, once each
MaxCoroutines == 3

---------------------------------------------------------------------------
(* Python values *)

Str(s) == [type |-> "str", chars |-> s]
PyNone == [type |-> "NoneType"]
EmptyDict == <<>>
NoStatus == "None"

\* 6 (integrity check) * 3 (layer-1 mean) * 7 (layer-3 percentage) * 500
\* (weights in hundredths of a score, scores to the third decimal)
Scale == 6 * 3 * 7 * 500

Num(n) == n * Scale

Whitespace == {" ", "\t", "\n"}

RECURSIVE lstrip(_)
lstrip(s) == IF s # <<>> /\ Head(s) \in Whitespace THEN lstrip(Tail(s)) ELSE s

RECURSIVE rstrip(_)
rstrip(s) ==
    IF s # <<>> /\ s[Len(s)] \in Whitespace
    THEN rstrip(SubSeq(s, 1, Len(s) - 1))
    ELSE s

\* str.strip(): raises AttributeError on a value that is not a str
StripRaises(v) == v.type # "str"
strip(v) == Str(rstrip(lstrip(v.chars)))

\* `sub in v` for a str sub: raises TypeError when v is not iterable (None)
InRaises(v) == v.type # "str"
In(sub, v) ==
    \E i \in 0..(Len(v.chars) - Len(sub)) :
        SubSeq(v.chars, i + 1, i + Len(sub)) = sub

\* dict.get(key, default)
Get(d, key, default) == IF key \in DOMAIN d THEN d[key] ELSE default

\* sum(1 for v in values if v)
Count(S) == Cardinality(S)

Max(a, b) == IF a >= b THEN a ELSE b

\* the element of a one-element set: Only({F(x) : x \in {e}}) is F(e) with e
\* evaluated once
Only(S) == CHOOSE x \in S : TRUE

---------------------------------------------------------------------------
(* ValidationStatus *)

GOLD == "GOLD"
SILVER == "SILVER"
BRONZE == "BRONZE"
REJECTED == "REJECTED"
ValidationStatus == {GOLD, SILVER, BRONZE, REJECTED}

---------------------------------------------------------------------------
(* Layer 1 helper methods *)

authoritative_sources ==
    << <<"H","U","D">>,
       <<"C","o","u","n","t","y"," ","C","l","e","r","k">>,
       <<"C","o","u","n","t","y"," ","A","s","s","e","s","s","o","r">>,
       <<"C","o","u","n","t","y"," ","T","a","x">>,
       <<"U","S","P","S">>,
       <<"G","o","o","g","l","e"," ","M","a","p","s">>,
       <<"C","e","n","s","u","s"," ","B","u","r","e","a","u">>,
       <<"Z","i","l","l","o","w">>,
       <<"R","e","d","f","i","n">> >>

\* _check_source_authenticity taking any source that is not empty as
\* authoritative
_check_source_authenticity_AnySource(data_point) ==
    LET source == Get(data_point, "source", Str(<<>>))
        is_authentic == source.chars # <<>>
    IN  [check |-> "source_authenticity",
         source |-> source,
         is_authentic |-> is_authentic,
         score |-> IF is_authentic THEN Num(99) ELSE Num(0)]

_check_source_authenticity_raises(data_point) ==
    InRaises(Get(data_point, "source", Str(<<>>)))

_check_source_authenticity(data_point) ==
    LET source == Get(data_point, "source", Str(<<>>))
        is_authentic ==
            \E i \in 1..Len(authoritative_sources) :
                In(authoritative_sources[i], source)
    IN  [check |-> "source_authenticity",
         source |-> source,
         is_authentic |-> is_authentic,
         score |-> IF is_authentic THEN Num(99) ELSE Num(0)]

\* _check_data_integrity counting a key only when its value is truthy
_check_data_integrity_Truthy(data_point) ==
    LET Has(k) == /\ k \in DOMAIN data_point
                  /\ data_point[k] \notin {PyNone, Str(<<>>)}
        checks == [has_address |-> Has("address"),
                   has_city |-> Has("city"),
                   has_state |-> Has("state"),
                   has_zip |-> Has("zip"),
                   has_source |-> Has("source"),
                   has_timestamp |-> Has("timestamp")]
        passed == Count({k \in DOMAIN checks : checks[k]})
        total == Count(DOMAIN checks)
    IN  [check |-> "data_integrity",
         checks |-> checks,
         score |-> (passed * Num(100)) \div total]

_check_data_integrity(data_point) ==
    LET checks == [has_address |-> "address" \in DOMAIN data_point,
                   has_city |-> "city" \in DOMAIN data_point,
                   has_state |-> "state" \in DOMAIN data_point,
                   has_zip |-> "zip" \in DOMAIN data_point,
                   has_source |-> "source" \in DOMAIN data_point,
                   has_timestamp |-> "timestamp" \in DOMAIN data_point]
        passed == Count({k \in DOMAIN checks : checks[k]})
        total == Count(DOMAIN checks)
    IN  [check |-> "data_integrity",
         checks |-> checks,
         score |-> (passed * Num(100)) \div total]

_check_data_quality_raises(data_point) ==
    \E k \in {"address", "city", "state"} :
        StripRaises(Get(data_point, k, Str(<<>>)))

Deduct(data_point, k) ==
    IF strip(Get(data_point, k, Str(<<>>))) = Str(<<>>) THEN Num(50) ELSE 0

\* _check_data_quality without the floor at 0
_check_data_quality_NoFloor(data_point) ==
    [check |-> "data_quality",
     score |-> Num(90) - Deduct(data_point, "address")
                       - Deduct(data_point, "city")
                       - Deduct(data_point, "state")]

_check_data_quality(data_point) ==
    LET quality_score ==
            Num(90) - Deduct(data_point, "address")
                    - Deduct(data_point, "city")
                    - Deduct(data_point, "state")
    IN  [check |-> "data_quality",
         score |-> Max(0, quality_score)]

---------------------------------------------------------------------------
(* The three layers *)

_layer_1_raises(data_point) ==
    \/ _check_source_authenticity_raises(data_point)
    \/ _check_data_quality_raises(data_point)

\* _layer_1_internal_verification counting the source check twice
_layer_1_internal_verification_SourceTwice(data_point) ==
    LET source_check == _check_source_authenticity(data_point)
        integrity_check == _check_data_integrity(data_point)
        quality_check == _check_data_quality(data_point)
        scores == <<source_check.score, source_check.score,
                    integrity_check.score, quality_check.score>>
    IN  [layer |-> 1,
         name |-> "Internal Verification",
         checks |-> [source_authenticity |-> source_check,
                     data_integrity |-> integrity_check,
                     data_quality |-> quality_check],
         score |-> (scores[1] + scores[2] + scores[3] + scores[4])
                       \div Len(scores)]

_layer_1_internal_verification(data_point) ==
    LET source_check == _check_source_authenticity(data_point)
        integrity_check == _check_data_integrity(data_point)
        quality_check == _check_data_quality(data_point)
        scores == <<source_check.score, integrity_check.score,
                    quality_check.score>>
    IN  [layer |-> 1,
         name |-> "Internal Verification",
         checks |-> [source_authenticity |-> source_check,
                     data_integrity |-> integrity_check,
                     data_quality |-> quality_check],
         score |-> (scores[1] + scores[2] + scores[3]) \div Len(scores)]

ExtNames == <<"USPS", "Google Maps", "County Records", "County Assessor",
              "Property Appraiser">>
ExtConfidence == <<99, 98, 99, 99, 98>>

\* _verify_usps .. _verify_property_appraiser: the i-th collaborator's answer
_verify(i, ext) ==
    [source |-> ExtNames[i], valid |-> ext[i], confidence |-> ExtConfidence[i]]

HardcodedExt == [i \in 1..5 |-> TRUE]

_layer_2_external_verification(data_point, ext) ==
    LET sources == [i \in 1..5 |-> _verify(i, ext)]
        valid_sources == {i \in 1..Len(sources) : sources[i].valid}
        agreement == (Count(valid_sources) * Num(100)) \div Len(sources)
        score == IF agreement >= Num(95) THEN Num(99)
                 ELSE IF agreement >= Num(80) THEN Num(90)
                 ELSE IF agreement >= Num(60) THEN Num(75)
                 ELSE Num(50)
    IN  IF valid_sources # {}
        THEN [layer |-> 2,
              name |-> "External Verification",
              external_sources |-> sources,
              agreement_percentage |-> agreement,
              score |-> score]
        ELSE [layer |-> 2,
              name |-> "External Verification",
              external_sources |-> sources,
              agreement_percentage |-> 0,
              score |-> Num(0)]

ReproNames == <<"usps_findable", "google_maps_findable",
                "county_assessor_findable", "county_clerk_findable",
                "property_appraiser_findable", "zillow_findable",
                "redfin_findable">>

\* _can_find_in_usps .. _can_find_in_redfin: the i-th index's answer
_can_find(i, repro) == repro[i]

HardcodedRepro == [i \in 1..7 |-> TRUE]

_layer_3_reproducibility_test(data_point, repro) ==
    LET reproducibility_checks == [i \in 1..7 |-> _can_find(i, repro)]
        findable_count ==
            Count({i \in DOMAIN reproducibility_checks :
                       reproducibility_checks[i]})
        total_count == Len(reproducibility_checks)
        reproducibility_percentage ==
            (findable_count * Num(100)) \div total_count
        score == IF reproducibility_percentage >= Num(95) THEN Num(99)
                 ELSE IF reproducibility_percentage >= Num(80) THEN Num(90)
                 ELSE IF reproducibility_percentage >= Num(60) THEN Num(75)
                 ELSE Num(50)
    IN  [layer |-> 3,
         name |-> "Reproducibility Test",
         reproducibility_checks |-> reproducibility_checks,
         score |-> score]

---------------------------------------------------------------------------
(* validate_data_point *)

Unknown == Str(<<"u","n","k","n","o","w","n">>)

\* the dict appended to self.audit_log after a layer has run
AuditEntry(layer, data_point, layer_result) ==
    [layer |-> layer,
     data_point |-> Get(data_point, "address", Unknown),
     score |-> layer_result.score]

\* FailsGate with the gate at 60
FailsGate_At60(score) == score < Num(60)

\* FailsGate rejecting a score of 75 too
FailsGate_Inclusive(score) == score <= Num(75)

\* `layer_result["score"] < 75`, the early-exit test after each layer
FailsGate(score) == score < Num(75)

\* FinalScore with the weight 0.34 on layer 1
FinalScore_Layer1Heavy(s1, s2, s3) == (s1 * 34 + s2 * 33 + s3 * 33) \div 100

\* the weighted composite of the three layer scores
FinalScore(s1, s2, s3) == (s1 * 33 + s2 * 33 + s3 * 34) \div 100

\* DetermineFinalStatus with > for >=
DetermineFinalStatus_Exclusive(final_score) ==
    IF final_score > Num(95) THEN GOLD
    ELSE IF final_score > Num(85) THEN SILVER
    ELSE IF final_score > Num(75) THEN BRONZE
    ELSE REJECTED

\* DetermineFinalStatus with the BRONZE band starting at 80
DetermineFinalStatus_Bronze80(final_score) ==
    IF final_score >= Num(95) THEN GOLD
    ELSE IF final_score >= Num(85) THEN SILVER
    ELSE IF final_score >= Num(80) THEN BRONZE
    ELSE REJECTED

\* the band of a composite score
DetermineFinalStatus(final_score) ==
    IF final_score >= Num(95) THEN GOLD
    ELSE IF final_score >= Num(85) THEN SILVER
    ELSE IF final_score >= Num(75) THEN BRONZE
    ELSE REJECTED

NewReport(data_point) ==
    [data_point |-> data_point,
     layer_1 |-> EmptyDict,
     layer_2 |-> EmptyDict,
     layer_3 |-> EmptyDict,
     final_score |-> 0,
     final_status |-> NoStatus,
     audit_trail |-> <<>>]

---------------------------------------------------------------------------
(* The composite in the arithmetic of the interpreter.  0.33 and 0.34 are
   float literals and the three products and two sums are IEEE 754 binary64
   operations, each rounded to nearest, ties to even.  A float x >= 0 is
   kept exactly, as the natural number x * 2^(FracLimbs * LimbBits) written
   in base 2^LimbBits, least significant limb first and without leading
   zero limbs (0.0 is <<>>).  The floats met here lie in [0.25, 128): they
   are multiples of 2^-54, and rounding one drops fewer than LimbBits
   bits. *)

\* significant bits of a binary64 float
Significand == 53
LimbBits == 15
FracLimbs == 4
Base == 2 ^ LimbBits

RECURSIVE Limbs(_)
\* a natural number in base Base
Limbs(n) == IF n = 0 THEN <<>> ELSE <<n % Base>> \o Limbs(n \div Base)

\* x * Base^k
ShiftLimbs(x, k) == IF x = <<>> THEN <<>> ELSE [i \in 1..k |-> 0] \o x

Limb(x, i) == IF i <= Len(x) THEN x[i] ELSE 0

RECURSIVE SumLimbs(_, _, _, _, _)
\* x + y from limb i on, given the carry into limb i
SumLimbs(x, y, i, carry, sum) ==
    IF i > Len(x) /\ i > Len(y)
    THEN IF carry > 0 THEN Append(sum, carry) ELSE sum
    ELSE SumLimbs(x, y, i + 1, (Limb(x, i) + Limb(y, i) + carry) \div Base,
                  Append(sum, (Limb(x, i) + Limb(y, i) + carry) % Base))

\* x + y, exact
ExactSum(x, y) == Only({SumLimbs(a, b, 1, 0, <<>>) : a \in {x}, b \in {y}})

RECURSIVE ProductLimbs(_, _, _, _, _)
\* x * n from limb i on, given the carry into limb i
ProductLimbs(x, n, i, carry, product) ==
    IF i > Len(x)
    THEN product \o Limbs(carry)
    ELSE ProductLimbs(x, n, i + 1, (x[i] * n + carry) \div Base,
                      Append(product, (x[i] * n + carry) % Base))

\* x * n for a natural number n <= 100, exact
ExactProduct(x, n) ==
    IF n = 0 THEN <<>>
    ELSE Only({ProductLimbs(a, n, 1, 0, <<>>) : a \in {x}})

\* the number of bits of x
BitLength(x) ==
    IF x = <<>> THEN 0
    ELSE LimbBits * (Len(x) - 1)
            + (CHOOSE b \in 1..LimbBits :
                   2 ^ (b - 1) <= x[Len(x)] /\ x[Len(x)] < 2 ^ b)

\* Round rounding toward zero
Round_TowardZero(x, sticky) ==
    IF BitLength(x) <= Significand THEN x
    ELSE [x EXCEPT
             ![1] = x[1] - (x[1] % (2 ^ (BitLength(x) - Significand)))]

\* x, or a value just above x when sticky, cut to Significand significant
\* bits: to the nearest such value, ties to the even one
Round(x, sticky) ==
    IF BitLength(x) <= Significand THEN x
    ELSE LET unit == 2 ^ (BitLength(x) - Significand)
             low == x[1] % unit
             kept == [x EXCEPT ![1] = x[1] - low]
             odd == (x[1] \div unit) % 2 = 1
             up == \/ 2 * low > unit
                   \/ 2 * low = unit /\ (sticky \/ odd)
         IN  IF up THEN ExactSum(kept, <<unit>>) ELSE kept

RECURSIVE LongDivision(_, _, _, _, _)
\* x \div d and x % d for a natural number d <= 100, from limb i down
LongDivision(x, d, i, quotient, remainder) ==
    IF i = 0 THEN [quotient |-> quotient, remainder |-> remainder]
    ELSE LongDivision(x, d, i - 1,
                      <<(remainder * Base + x[i]) \div d>> \o quotient,
                      (remainder * Base + x[i]) % d)

RECURSIVE Normal(_)
\* x without leading zero limbs
Normal(x) ==
    IF x # <<>> /\ x[Len(x)] = 0 THEN Normal(SubSeq(x, 1, Len(x) - 1)) ELSE x

\* float(n) for a natural number n
FloatOfInt(n) == ShiftLimbs(Limbs(n), FracLimbs)

\* the float a decimal literal of value n / d denotes: the float nearest to
\* n / d
FloatLiteral(n, d) ==
    Only({Round(Normal(division.quotient), division.remainder # 0) :
             division \in {LongDivision(FloatOfInt(n), d,
                                        Len(FloatOfInt(n)), <<>>, 0)}})

\* x * y, x + y as the interpreter computes them, for a whole y
FloatProduct(x, n) == Round(ExactProduct(x, n), FALSE)

FloatSum(x, y) == Round(ExactSum(x, y), FALSE)

\* x >= y
FloatGE(x, y) ==
    \/ Len(x) > Len(y)
    \/ /\ Len(x) = Len(y)
       /\ \/ x = y
          \/ \E i \in 1..Len(x) :
                /\ x[i] > y[i]
                /\ \A j \in (i + 1)..Len(x) : x[j] = y[j]

\* layer_1 * 0.33 + layer_2 * 0.33 + layer_3 * 0.34 on whole layer
\* scores, evaluated left to right
FloatFinalScore(s1, s2, s3) ==
    Only({FloatSum(FloatSum(FloatProduct(w33, s1), FloatProduct(w33, s2)),
                   FloatProduct(w34, s3)) :
             w33 \in {FloatLiteral(33, 100)},
             w34 \in {FloatLiteral(34, 100)}})

\* the band of a composite held as a float
FloatFinalStatus(final_score) ==
    IF FloatGE(final_score, FloatOfInt(95)) THEN GOLD
    ELSE IF FloatGE(final_score, FloatOfInt(85)) THEN SILVER
    ELSE IF FloatGE(final_score, FloatOfInt(75)) THEN BRONZE
    ELSE REJECTED

\* RejectImmediately without the assignment of final_score
RejectImmediately_NoScore(self, log, report, score, invoked) ==
    LET rejected == [report EXCEPT !.final_status = REJECTED]
    IN  [self |-> [validation_history |-> self.validation_history,
                   rejected_data |-> Append(self.rejected_data, rejected),
                   audit_log |-> log],
         raised |-> FALSE,
         report |-> rejected,
         invoked |-> invoked]

\* RejectImmediately falling through to the append to validation_history
RejectImmediately_AlsoHistory(self, log, report, score, invoked) ==
    LET rejected == [report EXCEPT !.final_status = REJECTED,
                                   !.final_score = score]
    IN  [self |-> [validation_history |->
                       Append(self.validation_history, rejected),
                   rejected_data |-> Append(self.rejected_data, rejected),
                   audit_log |-> log],
         raised |-> FALSE,
         report |-> rejected,
         invoked |-> invoked]

\* RejectImmediately leaving only this call's entries in the audit log
RejectImmediately_NewLog(self, log, report, score, invoked) ==
    LET rejected == [report EXCEPT !.final_status = REJECTED,
                                   !.final_score = score]
    IN  [self |-> [validation_history |-> self.validation_history,
                   rejected_data |-> Append(self.rejected_data, rejected),
                   audit_log |->
                       SubSeq(log, Len(self.audit_log) + 1, Len(log))],
         raised |-> FALSE,
         report |-> rejected,
         invoked |-> invoked]

\* the early exit taken after layer `invoked[Len(invoked)]`: mark the report
\* REJECTED with that layer's score, append it to rejected_data, return it
RejectImmediately(self, log, report, score, invoked) ==
    LET rejected == [report EXCEPT !.final_status = REJECTED,
                                   !.final_score = score]
    IN  [self |-> [validation_history |-> self.validation_history,
                   rejected_data |-> Append(self.rejected_data, rejected),
                   audit_log |-> log],
         raised |-> FALSE,
         report |-> rejected,
         invoked |-> invoked]

\* ScoreAndFile reusing the score and status filed earlier for the same
\* data point
ScoreAndFile_Cached(self, log, report, final_score) ==
    LET earlier == {i \in 1..Len(self.validation_history) :
                       self.validation_history[i].data_point
                           = report.data_point}
        cached == self.validation_history[CHOOSE i \in earlier : TRUE]
        score == IF earlier = {} THEN final_score ELSE cached.final_score
        status == DetermineFinalStatus(score)
        scored == [report EXCEPT !.final_score = score,
                                 !.final_status = status]
    IN  [self |-> [validation_history |->
                       Append(self.validation_history, scored),
                   rejected_data |->
                       IF status = REJECTED
                       THEN Append(self.rejected_data, scored)
                       ELSE self.rejected_data,
                   audit_log |-> log],
         raised |-> FALSE,
         report |-> scored,
         invoked |-> <<1, 2, 3>>]

\* ScoreAndFile appending the report to validation_history twice
ScoreAndFile_Twice(self, log, report, final_score) ==
    LET status == DetermineFinalStatus(final_score)
        scored == [report EXCEPT !.final_score = final_score,
                                 !.final_status = status]
    IN  [self |-> [validation_history |->
                       self.validation_history \o <<scored, scored>>,
                   rejected_data |-> self.rejected_data,
                   audit_log |-> log],
         raised |-> FALSE,
         report |-> scored,
         invoked |-> <<1, 2, 3>>]

\* the tail of validate_data_point once all three layers passed the gate:
\* store the composite, classify it, file the report, return it
ScoreAndFile(self, log, report, final_score) ==
    LET status == DetermineFinalStatus(final_score)
        scored == [report EXCEPT !.final_score = final_score,
                                 !.final_status = status]
    IN  [self |-> [validation_history |->
                       Append(self.validation_history, scored),
                   rejected_data |->
                       IF status = REJECTED
                       THEN Append(self.rejected_data, scored)
                       ELSE self.rejected_data,
                   audit_log |-> log],
         raised |-> FALSE,
         report |-> scored,
         invoked |-> <<1, 2, 3>>]

\* an exception leaves validate_data_point: nothing is returned, nothing is
\* filed, and the validator keeps what the call had appended before (raised
\* inside layer 1, that is before the first append)
Raise(self, invoked) ==
    [self |-> self, raised |-> TRUE, report |-> PyNone, invoked |-> invoked]

\* The layers call their collaborators one after the other with no
\* try/except: a collaborator that raises (a timeout is an exception too)
\* ends the layer with that exception.  `ext` and `repro` hold the answers
\* given; when they are fewer than the panel, the next collaborator raised.
_layer_2_raises(ext) == Len(ext) < Len(ExtNames)

_layer_3_raises(repro) == Len(repro) < Len(ReproNames)

validate_data_point(self, data_point, ext, repro) ==
    LET report == NewReport(data_point)
        layer_1_result == _layer_1_internal_verification(data_point)
        report1 == [report EXCEPT !.layer_1 = layer_1_result]
        log1 == Append(self.audit_log,
                       AuditEntry(1, data_point, layer_1_result))
        layer_2_result == _layer_2_external_verification(data_point, ext)
        report2 == [report1 EXCEPT !.layer_2 = layer_2_result]
        log2 == Append(log1, AuditEntry(2, data_point, layer_2_result))
        layer_3_result == _layer_3_reproducibility_test(data_point, repro)
        report3 == [report2 EXCEPT !.layer_3 = layer_3_result]
        log3 == Append(log2, AuditEntry(3, data_point, layer_3_result))
        final_score == FinalScore(layer_1_result.score, layer_2_result.score,
                                  layer_3_result.score)
    IN  IF _layer_1_raises(data_point)
        THEN Raise(self, <<1>>)
        ELSE IF FailsGate(layer_1_result.score)
        THEN RejectImmediately(self, log1, report1,
                               layer_1_result.score, <<1>>)
        ELSE IF _layer_2_raises(ext)
        THEN Raise([self EXCEPT !.audit_log = log1], <<1, 2>>)
        ELSE IF FailsGate(layer_2_result.score)
        THEN RejectImmediately(self, log2, report2,
                               layer_2_result.score, <<1, 2>>)
        ELSE IF _layer_3_raises(repro)
        THEN Raise([self EXCEPT !.audit_log = log2], <<1, 2, 3>>)
        ELSE IF FailsGate(layer_3_result.score)
        THEN RejectImmediately(self, log3, report3,
                               layer_3_result.score, <<1, 2, 3>>)
        ELSE ScoreAndFile(self, log3, report3, final_score)

\* get_releasable_data returning BRONZE reports too
get_releasable_data_WithBronze(self) ==
    SelectSeq(self.validation_history,
              LAMBDA r : r.final_status \in {GOLD, SILVER, BRONZE})

get_releasable_data(self) ==
    SelectSeq(self.validation_history,
              LAMBDA r : r.final_status \in {GOLD, SILVER})

get_rejected_data(self) == self.rejected_data

---------------------------------------------------------------------------
(* generate_validation_report *)

CountStatus(results, status) ==
    Count({i \in 1..Len(results) : results[i].final_status = status})

\* the loop over data_points: `calls` holds, per data point, the data point
\* and what the collaborators answer during its validation.  An exception
\* of a validation ends the loop and the call.
RECURSIVE RunBatch(_, _, _, _)
RunBatch(self, calls, results, invoked) ==
    IF calls = <<>>
    THEN [self |-> self, raised |-> FALSE, results |-> results,
          invoked |-> invoked]
    ELSE Only({IF out.raised
               THEN [self |-> out.self, raised |-> TRUE, results |-> results,
                     invoked |-> Append(invoked, out.invoked)]
               ELSE RunBatch(out.self, Tail(calls),
                             Append(results, out.report),
                             Append(invoked, out.invoked)) :
               out \in {validate_data_point(self, Head(calls).data_point,
                                            Head(calls).ext,
                                            Head(calls).repro)}})

\* the statistics and the returned dict, once the loop has ended
BatchReport(calls, run) ==
    [self |-> run.self,
     raised |-> run.raised,
     results |-> run.results,
     invoked |-> run.invoked,
     report |->
         IF run.raised THEN PyNone
         ELSE [total_data_points |-> Len(calls),
               statistics |->
                   [gold |-> CountStatus(run.results, GOLD),
                    silver |-> CountStatus(run.results, SILVER),
                    bronze |-> CountStatus(run.results, BRONZE),
                    rejected |-> CountStatus(run.results, REJECTED)],
               validation_results |-> run.results,
               audit_log |-> run.self.audit_log]]

generate_validation_report(self, calls) ==
    Only({BatchReport(calls, run) : run \in {RunBatch(self, calls, <<>>, <<>>)}})

---------------------------------------------------------------------------
(* Inputs *)

Keys == {"address", "city", "state", "zip", "source", "timestamp"}

Absent == [type |-> "absent"]

\* the dict holding exactly the keys whose value is not Absent
Dict(a, c, s, z, o, t) ==
    LET full == [k \in Keys |->
                    CASE k = "address" -> a
                      [] k = "city" -> c
                      [] k = "state" -> s
                      [] k = "zip" -> z
                      [] k = "source" -> o
                      [] k = "timestamp" -> t]
    IN  [k \in {x \in Keys : full[x] # Absent} |-> full[k]]

Riverside == Str(<<"1","0","9","4"," ","R","i","v","e","r","s","i","d","e">>)
PortStLucie == Str(<<"P","o","r","t"," ","S","t",".">>)
FL == Str(<<"F","L">>)
Zip34984 == Str(<<"3","4","9","8","4">>)
Now == Str(<<"2","0","2","4">>)
CountyAssessor ==
    Str(<<"C","o","u","n","t","y"," ","A","s","s","e","s","s","o","r">>)
HUD == Str(<<"H","U","D">>)
Blog == Str(<<"B","l","o","g">>)

\* absent, not a str, empty, whitespace only, text between whitespace
TextValues ==
    {Absent, PyNone, Str(<<>>), Str(<<" ", "\t">>), Str(<<" ", "A", " ">>)}
OtherValues == {Absent, PyNone, Zip34984}
\* absent, not a str, empty, two names off the list (one of them a name of
\* the list in lower case), a name of the list, a text containing one
SourceValues ==
    {Absent, PyNone, Str(<<>>), Blog, Str(<<"h","u","d">>), CountyAssessor,
     Str(<<"x"," ","H","U","D"," ","y">>)}

AllRecords ==
    {Dict(a, c, s, z, o, t) :
        a \in TextValues, c \in TextValues, s \in TextValues,
        z \in OtherValues, o \in SourceValues, t \in OtherValues}

\* a key that is none of the six required ones
ExtraKeys == {"county"}
\* not a str, empty, text
KeyValues == {PyNone, Str(<<>>), Zip34984}
\* every choice of keys among the required ones and the extra one, with
\* every choice of values
KeyRecords ==
    UNION {[present -> KeyValues] : present \in SUBSET (Keys \cup ExtraKeys)}

\* first record of the module's example run
GoodRecord == Dict(Riverside, PortStLucie, FL, Zip34984, CountyAssessor, Now)
\* a blank address and a source that is not on the list
BlankAddressRecord ==
    Dict(Str(<<" ">>), PortStLucie, FL, Zip34984, Blog, Now)
\* a city that is not a str
NoneCityRecord == Dict(Riverside, PyNone, FL, Zip34984, HUD, Now)

SessionRecords == {GoodRecord, BlankAddressRecord, NoneCityRecord}

\* answers of the five verifiers: the first v valid, v = 0..5
ExtResponses == {[i \in 1..5 |-> i <= v] : v \in 0..5}
\* answers of the seven indices: the first f findable, f = 0..7
ReproResponses == {[i \in 1..7 |-> i <= f] : f \in 0..7}
\* one answer of the indices per score band, and none findable
SessionRepro == {[i \in 1..7 |-> i <= f] : f \in {0, 4, 5, 6, 7}}

\* every combination of answers of the five verifiers, of the seven indices
ExtAnswers == [1..5 -> BOOLEAN]
ReproAnswers == [1..7 -> BOOLEAN]

\* a panel that is not consulted in a call gives no answer in it
NotConsulted == <<>>

\* answers cut short by a collaborator that raises: any answers of the
\* collaborators called before it
ExtFaults == UNION {[1..n -> BOOLEAN] : n \in 0..4}
ReproFaults == UNION {[1..n -> BOOLEAN] : n \in 0..6}

Layer2Consulted(data_point) ==
    /\ ~_layer_1_raises(data_point)
    /\ ~FailsGate(_layer_1_internal_verification(data_point).score)

Layer3Consulted(data_point, ext) ==
    /\ Layer2Consulted(data_point)
    /\ ~FailsGate(_layer_2_external_verification(data_point, ext).score)

\* what the collaborators can answer during the validation of a data point
Answers(data_point, exts, repros) ==
    IF Layer2Consulted(data_point)
    THEN {[data_point |-> data_point, ext |-> e, repro |-> r] :
             e \in {x \in exts : Layer3Consulted(data_point, x)},
             r \in repros}
         \cup {[data_point |-> data_point, ext |-> e, repro |-> NotConsulted] :
                  e \in {x \in exts : ~Layer3Consulted(data_point, x)}}
    ELSE {[data_point |-> data_point, ext |-> NotConsulted,
           repro |-> NotConsulted]}

CallInputs ==
    UNION {Answers(d, ExtResponses, SessionRepro) : d \in SessionRecords}

AllInputs ==
    UNION {Answers(d, ExtResponses, ReproResponses) : d \in AllRecords}

\* validations of a record that passes layer 1 in which a collaborator of
\* layer 2, or of layer 3 after layer 2 has passed, raises
FaultyInputs ==
    {[data_point |-> GoodRecord, ext |-> e, repro |-> NotConsulted] :
        e \in ExtFaults}
        \cup {[data_point |-> GoodRecord, ext |-> e, repro |-> r] :
                 e \in {x \in ExtResponses : Layer3Consulted(GoodRecord, x)},
                 r \in ReproFaults}

\* calls made concurrently: one filed after three layers, one rejected by
\* layer 3, one rejected by layer 1, one raising in layer 1
ConcurrentInputs ==
    {[data_point |-> GoodRecord, ext |-> HardcodedExt,
      repro |-> HardcodedRepro],
     [data_point |-> GoodRecord, ext |-> [i \in 1..5 |-> i <= 3],
      repro |-> [i \in 1..7 |-> i <= 4]],
     [data_point |-> BlankAddressRecord, ext |-> NotConsulted,
      repro |-> NotConsulted],
     [data_point |-> NoneCityRecord, ext |-> NotConsulted,
      repro |-> NotConsulted]}

\* whole layer scores: those layers 2 and 3 give, and 80 and 85
WholeScores == {0, 50, 75, 80, 85, 90, 99}

\* composite scores handed to the final classification: every whole score
\* and the third decimals around the three band limits; Milli is 0.001
Milli == Scale \div 1000
CompositeInputs ==
    {Num(n) : n \in 0..100}
        \cup {Num(b) + d * Milli : b \in {75, 85, 95}, d \in {-1, 1}}

---------------------------------------------------------------------------
(* The orchestration core (aether_core_system.py) *)

\* AETHERStatus
INITIALIZING == "initializing"
ACTIVE == "active"
PROCESSING == "processing"
ERROR == "error"
STOPPED == "stopped"
AETHERStatus == {INITIALIZING, ACTIVE, PROCESSING, ERROR, STOPPED}

\* AETHERCapability, in declaration order
AETHERCapability ==
    <<"autonomous_operation", "parallel_processing", "lead_generation",
      "data_validation", "triple_check_validation", "decision_making",
      "memory_management", "multi_platform_deployment">>

\* d[key] = value on a dict
SetItem(d, key, value) ==
    [k \in DOMAIN d \cup {key} |-> IF k = key THEN value ELSE d[k]]

\* the AETHERCore __init__ leaves
NewAETHERCore ==
    [name |-> "AETHER",
     version |-> "2.0",
     status |-> INITIALIZING,
     capabilities |-> AETHERCapability,
     platforms |->
         [p \in {"manus", "google_cloud", "github", "firestore", "cloud_sql"}
             |-> [status |-> "ACTIVE", access |-> "FULL_OWNER"]],
     agents |-> EmptyDict,
     memory |-> EmptyDict,
     execution_log |-> <<>>]

\* the dict _load_credentials builds
credentials ==
    [p \in {"manus_dashboard", "google_cloud", "github", "firestore",
            "cloud_sql"}
        |-> [status |-> "LOADED", access |-> "FULL_OWNER"]]

_load_credentials(self) ==
    [self EXCEPT !.memory = SetItem(self.memory, "credentials", credentials)]

\* _initialize_memory, reading the clock once: self.memory is bound to a
\* new dict
_initialize_memory(self, now) ==
    [self EXCEPT !.memory =
        [system |-> [name |-> "AETHER", version |-> "2.0",
                     status |-> "ACTIVE", initialized_at |-> now],
         capabilities |-> self.capabilities,
         platforms |-> self.platforms,
         agents |-> EmptyDict,
         execution_history |-> <<>>]]

agent_types ==
    <<"lead_sniper_agent", "validator_agent", "decision_agent",
      "orchestrator_agent", "memory_agent", "deployment_agent">>

\* _register_agents, reading the clock once per agent, first at `now`
RECURSIVE RegisterFrom(_, _, _)
RegisterFrom(agents, i, now) ==
    IF i > Len(agent_types) THEN agents
    ELSE RegisterFrom(SetItem(agents, agent_types[i],
                              [name |-> agent_types[i],
                               status |-> "REGISTERED",
                               registered_at |-> now + i - 1,
                               capabilities |-> <<>>]),
                      i + 1, now)

_register_agents(self, now) ==
    [self EXCEPT !.agents = RegisterFrom(self.agents, 1, now)]

\* initialize: none of the three coroutines it awaits suspends, so it runs
\* to its end without another coroutine in between
initialize(self, now) ==
    _register_agents(
        _initialize_memory(
            _load_credentials([self EXCEPT !.status = ACTIVE]),
            now),
        now + 1)

\* execute_lead_generation up to its await: the status and the result dict
BeginExecution(self, location, lead_type, now) ==
    [self |-> [self EXCEPT !.status = PROCESSING],
     result |-> [location |-> location,
                 lead_type |-> lead_type,
                 status |-> "PROCESSING",
                 timestamp |-> now,
                 leads_found |-> 0,
                 validation_status |-> "PENDING"]]

\* execute_lead_generation after its await
EndExecution(self, result) ==
    LET completed_result ==
            [result EXCEPT !.status = "COMPLETED",
                           !.leads_found = 100,
                           !.validation_status = "TRIPLE_CHECK_PASSED"]
    IN  [self |-> [self EXCEPT
                      !.execution_log =
                          Append(self.execution_log, completed_result),
                      !.status = ACTIVE],
         result |-> completed_result]

\* the coroutines that may run a method of the one core
Coroutines == 1..MaxCoroutines

\* a coroutine that has not been created yet
IdleCoroutine == [pc |-> "idle", op |-> "", result |-> PyNone]

Locations == {"Port St. Lucie", "Miami"}
LeadTypes == {"foreclosure"}

---------------------------------------------------------------------------
(* The watcher (ingest/watcher.py) *)

PIPELINE_RESULTS == "c:\\AI\\repos\\crawler_pipeline\\results"
INGEST_SCRIPT == "c:\\AI\\repos\\results\\ingest\\ingest_from_pipeline.py"
CLEAN_SCRIPT == "c:\\AI\\repos\\results\\cleaning\\normalize.py"

\* a path of the polled directory; its name is stem + suffix
Path(stem, suffix) ==
    [parent |-> PIPELINE_RESULTS, stem |-> stem, suffix |-> suffix]
Name(p) == <<p.stem, p.suffix>>

\* the paths the directory may hold, in the order sorted() gives them
Entries ==
    <<Path("a", ".json"), Path("b", ".json"), Path("notes", ".txt")>>
Range(q) == {q[i] : i \in 1..Len(q)}

\* the directory: whether it exists, and the paths in it when it does
Missing == [exists |-> FALSE, entries |-> {}]
Directory(S) == [exists |-> TRUE, entries |-> S]
Directories == {Missing} \cup {Directory(S) : S \in SUBSET Range(Entries)}

\* sorted(S) for a set S of entries
Sorted(S) == SelectSeq(Entries, LAMBDA p : p \in S)

\* list_files(): the *.json paths of the directory, sorted; [] when the
\* directory does not exist
list_files(dir) ==
    IF ~dir.exists THEN <<>>
    ELSE Sorted({p \in dir.entries : p.suffix = ".json"})

\* [p for p in files if p.name not in seen]
NewOf(files, s) == SelectSeq(files, LAMBDA p : Name(p) \notin s)

\* seen.add(p.name) for the first p of new only
AddSeen_First(s, new) == s \cup {Name(new[1])}

\* for p in new: seen.add(p.name)
AddSeen(s, new) == s \cup {Name(new[i]) : i \in 1..Len(new)}

\* what the loop has written and run so far: print() of the new names and
\* subprocess.run() of a script, which returns whatever the script exits
\* with (check=False)
Printed(new) ==
    [event |-> "print", names |-> [i \in 1..Len(new) |-> Name(new[i])]]
Ran(script, returncode) ==
    [event |-> "run", script |-> script, returncode |-> returncode]
ReturnCodes == {0, 1}

\* the loop before its first iteration
NewWatcher ==
    [pc |-> "list", files |-> <<>>, new |-> <<>>, output |-> <<>>]

---------------------------------------------------------------------------
(* State *)

\* the threads that may call validate_data_point on the one validator
Threads == 1..MaxThreads

\* a thread that has not called yet
IdleThread == [pc |-> "idle", call |-> <<>>, report |-> PyNone,
               invoked |-> <<>>]

\* the validator __init__ leaves
NewValidator ==
    [validation_history |-> <<>>, rejected_data |-> <<>>, audit_log |-> <<>>]

Self ==
    [validation_history |-> validation_history,
     rejected_data |-> rejected_data,
     audit_log |-> audit_log]

Init ==
    /\ validation_history = <<>>
    /\ rejected_data = <<>>
    /\ audit_log = <<>>
    /\ completed = <<>>
    /\ last_call = [op |-> "__init__", args |-> <<>>, raised |-> FALSE,
                    results |-> <<>>, invoked |-> <<>>, report |-> PyNone]
    /\ threads = [t \in Threads |-> IdleThread]
    /\ aether = NewAETHERCore
    /\ coroutines = [c \in Coroutines |-> IdleCoroutine]
    /\ clock = 0
    /\ seen = {}
    /\ directory = Missing
    /\ watcher = NewWatcher

Fresh == last_call.op = "__init__"

\* a call of a method: the validator's fields after it, the reports
\* validate_data_point has returned so far (completed) and what this call
\* was given and did (last_call): per validation it began, its data point
\* with the collaborators' answers (args) and the layers it entered
\* (invoked), and the reports of those that returned (results)
Call(op, args, out, results, invoked) ==
    /\ validation_history' = out.self.validation_history
    /\ rejected_data' = out.self.rejected_data
    /\ audit_log' = out.self.audit_log
    /\ completed' = completed \o results
    /\ last_call' = [op |-> op, args |-> args, raised |-> out.raised,
                     results |-> results, invoked |-> invoked,
                     report |-> out.report]
    /\ UNCHANGED <<threads, aether_vars, watcher_vars>>

ValidateDataPoint(data_point, ext, repro) ==
    \E out \in {validate_data_point(Self, data_point, ext, repro)} :
        Call("validate_data_point",
             <<[data_point |-> data_point, ext |-> ext, repro |-> repro]>>,
             out,
             IF out.raised THEN <<>> ELSE <<out.report>>, <<out.invoked>>)

GenerateValidationReport(calls) ==
    \E out \in {generate_validation_report(Self, calls)} :
        Call("generate_validation_report",
             SubSeq(calls, 1, Len(out.invoked)), out, out.results,
             out.invoked)

\* the tail of validate_data_point alone, on a composite score
ClassifyComposite(final_score) ==
    \E out \in {ScoreAndFile(Self, audit_log, NewReport(GoodRecord),
                             final_score)} :
        Call("ScoreAndFile", <<final_score>>, out, <<out.report>>,
             <<out.invoked>>)

\* the composite and its band alone, on three whole layer scores
Composite(s1, s2, s3) ==
    \E final_score \in {FloatFinalScore(s1, s2, s3)} :
        Call("composite", <<s1, s2, s3>>,
             [self |-> Self, raised |-> FALSE,
              report |-> [final_score |-> final_score,
                          final_status |-> FloatFinalStatus(final_score)]],
             <<>>, <<>>)

\* the structural-completeness sub-check alone
CheckDataIntegrity(data_point) ==
    \E integrity_check \in {_check_data_integrity(data_point)} :
        Call("_check_data_integrity", <<[data_point |-> data_point]>>,
             [self |-> Self, raised |-> FALSE, report |-> integrity_check],
             <<>>, <<>>)

\* layers 2 and 3 alone, each on the answers of its own panel
ScoreLayers(data_point, ext, repro) ==
    \E layer_2_result \in {_layer_2_external_verification(data_point, ext)},
       layer_3_result \in {_layer_3_reproducibility_test(data_point, repro)} :
        Call("layers",
             <<[data_point |-> data_point, ext |-> ext, repro |-> repro]>>,
             [self |-> Self, raised |-> FALSE,
              report |-> [layer_2 |-> layer_2_result,
                          layer_3 |-> layer_3_result]],
             <<>>, <<<<2, 3>>>>)

---------------------------------------------------------------------------
(* validate_data_point statement by statement, for callers running
   concurrently.  A step is the run of one thread from one access of the
   validator's lists to the next; what a thread computes in between touches
   only its own locals. *)

\* the layer k of a call, given what the collaborators answer in it
RunLayerOf(k, call) ==
    CASE k = 1 -> _layer_1_internal_verification(call.data_point)
      [] k = 2 -> _layer_2_external_verification(call.data_point, call.ext)
      [] k = 3 -> _layer_3_reproducibility_test(call.data_point, call.repro)

\* report["layer_k"] = layer_k_result
SetLayer(report, k, layer_result) ==
    CASE k = 1 -> [report EXCEPT !.layer_1 = layer_result]
      [] k = 2 -> [report EXCEPT !.layer_2 = layer_result]
      [] k = 3 -> [report EXCEPT !.layer_3 = layer_result]

\* report["layer_k"]
LayerResult(report, k) ==
    CASE k = 1 -> report.layer_1
      [] k = 2 -> report.layer_2
      [] k = 3 -> report.layer_3

\* thread t enters validate_data_point and creates its report
Start(t, call) ==
    /\ threads[t].pc = "idle"
    /\ threads' = [threads EXCEPT ![t] =
                       [pc |-> "layer", call |-> call,
                        report |-> NewReport(call.data_point),
                        invoked |-> <<>>]]
    /\ UNCHANGED <<validation_history, rejected_data, audit_log, completed,
                   last_call, aether_vars, watcher_vars>>

\* thread t runs its next layer, stores the result in its report and
\* appends the layer's entry to the shared audit log; an exception of
\* layer 1 ends the thread's call
RunLayer(t) ==
    LET th == threads[t]
        k == Len(th.invoked) + 1
    IN  /\ th.pc = "layer"
        /\ IF k = 1 /\ _layer_1_raises(th.call.data_point)
           THEN /\ threads' = [threads EXCEPT ![t].pc = "raised",
                                              ![t].invoked = <<1>>]
                /\ UNCHANGED audit_log
           ELSE \E layer_result \in {RunLayerOf(k, th.call)} :
                    /\ audit_log' =
                           Append(audit_log,
                                  AuditEntry(k, th.call.data_point,
                                             layer_result))
                    /\ threads' =
                           [threads EXCEPT
                               ![t].pc = "gate",
                               ![t].report =
                                   SetLayer(th.report, k, layer_result),
                               ![t].invoked = Append(th.invoked, k)]
        /\ UNCHANGED <<validation_history, rejected_data, completed,
                       last_call, aether_vars, watcher_vars>>

\* thread t tests the score of the layer it has just logged: below the gate
\* it files the report as rejected and returns, else it goes on
Gate(t) ==
    LET th == threads[t]
        k == Len(th.invoked)
        score == LayerResult(th.report, k).score
    IN  /\ th.pc = "gate"
        /\ IF FailsGate(score)
           THEN \E out \in {RejectImmediately(Self, audit_log, th.report,
                                              score, th.invoked)} :
                    /\ validation_history' = out.self.validation_history
                    /\ rejected_data' = out.self.rejected_data
                    /\ audit_log' = out.self.audit_log
                    /\ completed' = Append(completed, out.report)
                    /\ threads' = [threads EXCEPT ![t].pc = "returned",
                                                  ![t].report = out.report]
           ELSE /\ threads' = [threads EXCEPT
                                  ![t].pc = IF k < 3 THEN "layer" ELSE "file"]
                /\ UNCHANGED <<validation_history, rejected_data, audit_log,
                               completed>>
        /\ UNCHANGED <<last_call, aether_vars, watcher_vars>>

\* thread t, past the three gates, scores and files its report and returns
File(t) ==
    LET th == threads[t]
    IN  /\ th.pc = "file"
        /\ \E out \in {ScoreAndFile(Self, audit_log, th.report,
                                     FinalScore(th.report.layer_1.score,
                                                th.report.layer_2.score,
                                                th.report.layer_3.score))} :
               /\ validation_history' = out.self.validation_history
               /\ rejected_data' = out.self.rejected_data
               /\ audit_log' = out.self.audit_log
               /\ completed' = Append(completed, out.report)
               /\ threads' = [threads EXCEPT ![t].pc = "returned",
                                             ![t].report = out.report]
        /\ UNCHANGED <<last_call, aether_vars, watcher_vars>>

---------------------------------------------------------------------------
(* The coroutines of the core.  A step is the run of one coroutine from one
   suspension to the next; main() awaits initialize() before anything
   else. *)

Initialize(c) ==
    /\ \A d \in Coroutines : coroutines[d].pc = "idle"
    /\ aether' = initialize(aether, clock)
    /\ clock' = clock + 1 + Len(agent_types)
    /\ coroutines' = [coroutines EXCEPT ![c] =
                          [pc |-> "done", op |-> "initialize",
                           result |-> PyNone]]
    /\ UNCHANGED <<validation_history, rejected_data, audit_log, completed,
                   last_call, threads, watcher_vars>>

\* coroutine c runs execute_lead_generation up to asyncio.sleep
ExecuteLeadGeneration(c, location, lead_type) ==
    /\ coroutines[c].pc = "idle"
    /\ \E out \in {BeginExecution(aether, location, lead_type, clock)} :
           /\ aether' = out.self
           /\ coroutines' = [coroutines EXCEPT ![c] =
                                 [pc |-> "sleeping",
                                  op |-> "execute_lead_generation",
                                  result |-> out.result]]
    /\ clock' = clock + 1
    /\ UNCHANGED <<validation_history, rejected_data, audit_log, completed,
                   last_call, threads, watcher_vars>>

\* coroutine c is resumed after its sleep and returns
Resume(c) ==
    /\ coroutines[c].pc = "sleeping"
    /\ \E out \in {EndExecution(aether, coroutines[c].result)} :
           /\ aether' = out.self
           /\ coroutines' = [coroutines EXCEPT ![c].pc = "done",
                                               ![c].result = out.result]
    /\ UNCHANGED <<validation_history, rejected_data, audit_log, completed,
                   last_call, threads, clock, watcher_vars>>

---------------------------------------------------------------------------
(* The watcher loop, statement by statement; other processes change the
   directory at any time *)

\* files = list_files(); new = [...]; if new: print(...)
Poll ==
    /\ watcher.pc = "list"
    /\ \E files \in {list_files(directory)} :
         \E new \in {NewOf(files, seen)} :
           watcher' =
               [watcher EXCEPT
                   !.files = files,
                   !.new = new,
                   !.output = IF new # <<>>
                              THEN Append(watcher.output, Printed(new))
                              ELSE watcher.output,
                   !.pc = IF new # <<>> THEN "ingest" ELSE "sleep"]
    /\ UNCHANGED <<seen, directory>>
    /\ UNCHANGED <<validation_history, rejected_data, audit_log, completed,
                   last_call, threads, aether_vars>>

\* run_cmd(script) at position pc, going on at position next
RunCmd(pc, script, next) ==
    /\ watcher.pc = pc
    /\ \E returncode \in ReturnCodes :
           watcher' =
               [watcher EXCEPT
                   !.output = Append(watcher.output, Ran(script, returncode)),
                   !.pc = next]
    /\ UNCHANGED <<seen, directory>>
    /\ UNCHANGED <<validation_history, rejected_data, audit_log, completed,
                   last_call, threads, aether_vars>>

RunIngest == RunCmd("ingest", INGEST_SCRIPT, "clean")

RunClean == RunCmd("clean", CLEAN_SCRIPT, "mark")

\* for p in new: seen.add(p.name)
MarkSeen ==
    /\ watcher.pc = "mark"
    /\ seen' = AddSeen(seen, watcher.new)
    /\ watcher' = [watcher EXCEPT !.pc = "sleep"]
    /\ UNCHANGED directory
    /\ UNCHANGED <<validation_history, rejected_data, audit_log, completed,
                   last_call, threads, aether_vars>>

\* time.sleep(CHECK_INTERVAL), then the next iteration
Sleep ==
    /\ watcher.pc = "sleep"
    /\ watcher' = [watcher EXCEPT !.pc = "list"]
    /\ UNCHANGED <<seen, directory>>
    /\ UNCHANGED <<validation_history, rejected_data, audit_log, completed,
                   last_call, threads, aether_vars>>

\* files appear in the directory or leave it, or the directory itself does
ChangeDirectory ==
    /\ \E dir \in Directories \ {directory} : directory' = dir
    /\ UNCHANGED <<seen, watcher>>
    /\ UNCHANGED <<validation_history, rejected_data, audit_log, completed,
                   last_call, threads, aether_vars>>

---------------------------------------------------------------------------
(* Specifications *)

\* a session of one validator: single validations and batches
Validate ==
    /\ Len(completed) < MaxCalls
    /\ \E c \in CallInputs : ValidateDataPoint(c.data_point, c.ext, c.repro)

Generate ==
    \E n \in 0..MaxBatch :
        /\ Len(completed) + n <= MaxCalls
        /\ \E calls \in [1..n -> CallInputs] :
               GenerateValidationReport(calls)

Next == Validate \/ Generate

Spec == Init /\ [][Next]_vars

\* one validation of any record by a new validator
ValidateAny ==
    /\ Fresh
    /\ \E c \in AllInputs : ValidateDataPoint(c.data_point, c.ext, c.repro)

NextRecord == ValidateAny

SpecRecord == Init /\ [][NextRecord]_vars

\* the final classification of any composite score by a new validator
Classify ==
    /\ Fresh
    /\ \E final_score \in CompositeInputs : ClassifyComposite(final_score)

NextClassify == Classify

SpecClassify == Init /\ [][NextClassify]_vars

\* one validation by a new validator during which a collaborator raises
ValidateFaulty ==
    /\ Fresh
    /\ \E c \in FaultyInputs : ValidateDataPoint(c.data_point, c.ext, c.repro)

NextFaulty == ValidateFaulty

SpecFaulty == Init /\ [][NextFaulty]_vars

\* the composite of any three whole layer scores
ComposeAny ==
    /\ Fresh
    /\ \E s1 \in WholeScores, s2 \in WholeScores, s3 \in WholeScores :
           Composite(s1, s2, s3)

NextComposite == ComposeAny

SpecComposite == Init /\ [][NextComposite]_vars

\* any record, with the collaborators as the source has them
ValidateWithStubs ==
    /\ Fresh
    /\ \E data_point \in AllRecords :
           ValidateDataPoint(data_point, HardcodedExt, HardcodedRepro)

NextStubs == ValidateWithStubs

SpecStubs == Init /\ [][NextStubs]_vars

\* structural completeness of any record, extra keys included
CheckAnyKeys ==
    /\ Fresh
    /\ \E data_point \in KeyRecords : CheckDataIntegrity(data_point)

NextKeys == CheckAnyKeys

SpecKeys == Init /\ [][NextKeys]_vars

\* layers 2 and 3 on every combination of answers of the two panels
ScoreAnyAnswers ==
    /\ Fresh
    /\ \E ext \in ExtAnswers, repro \in ReproAnswers :
           ScoreLayers(GoodRecord, ext, repro)

NextLayers == ScoreAnyAnswers

SpecLayers == Init /\ [][NextLayers]_vars

\* the threads call validate_data_point once each, concurrently
StartCall == \E t \in Threads, c \in ConcurrentInputs : Start(t, c)

StepLayer == \E t \in Threads : RunLayer(t)

StepGate == \E t \in Threads : Gate(t)

StepFile == \E t \in Threads : File(t)

NextConcurrent == StartCall \/ StepLayer \/ StepGate \/ StepFile

SpecConcurrent == Init /\ [][NextConcurrent]_vars

\* one core: initialize first if at all, then executions in any interleaving
InitializeCore == \E c \in Coroutines : Initialize(c)

StartExecution ==
    \E c \in Coroutines, location \in Locations, lead_type \in LeadTypes :
        ExecuteLeadGeneration(c, location, lead_type)

ResumeExecution == \E c \in Coroutines : Resume(c)

NextAETHER == InitializeCore \/ StartExecution \/ ResumeExecution

SpecAETHER == Init /\ [][NextAETHER]_vars

\* the watcher loop beside a directory that changes
NextWatcher ==
    Poll \/ RunIngest \/ RunClean \/ MarkSeen \/ Sleep \/ ChangeDirectory

SpecWatcher == Init /\ [][NextWatcher]_vars

---------------------------------------------------------------------------
(* Vocabulary of the properties *)

Layers == 1..3

IsPrefix(s, t) == Len(s) <= Len(t) /\ SubSeq(t, 1, Len(s)) = s

\* the layers a report holds a result of
LayersRun(report) == {k \in Layers : LayerResult(report, k) # EmptyDict}

\* a single validate_data_point call has returned a report
Returned == last_call.op = "validate_data_point" /\ ~last_call.raised

\* the score layer k gives the data point and the collaborators' answers of
\* the last single call, computed apart from the orchestrator
ScoreOf(k) ==
    LET c == last_call.args[1]
    IN  CASE k = 1 -> _layer_1_internal_verification(c.data_point).score
          [] k = 2 -> _layer_2_external_verification(c.data_point, c.ext).score
          [] k = 3 ->
              _layer_3_reproducibility_test(c.data_point, c.repro).score

\* layer k can be scored in the last single call: its collaborators answered
Scored(k) ==
    LET c == last_call.args[1]
    IN  CASE k = 1 -> TRUE
          [] k = 2 -> c.ext # NotConsulted
          [] k = 3 -> c.repro # NotConsulted

\* layer k is the first layer of the last single call whose score is < 75
FirstBelowGate(k) ==
    /\ \A j \in 1..k : Scored(j)
    /\ \A j \in 1..(k - 1) : ScoreOf(j) >= 75 * Scale
    /\ ScoreOf(k) < 75 * Scale

---------------------------------------------------------------------------
(* C1: when layer k is the first layer whose score is below 75, the call
   returns REJECTED, the layers entered are exactly 1..k, the report holds no
   result of a later layer, and the call has appended exactly k audit
   entries (the validator is new, so the log holds only this call's). *)
C1_EarlyExit ==
    Returned =>
        \A k \in Layers :
            FirstBelowGate(k) =>
                /\ last_call.report.final_status = REJECTED
                /\ last_call.invoked[1] = [i \in 1..k |-> i]
                /\ LayersRun(last_call.report) = 1..k
                /\ Len(audit_log) = k

\* a rejection at layer 2: two audit entries, layer 3 never entered
C1_Witness ==
    /\ Returned
    /\ FirstBelowGate(2)
    /\ last_call.report.final_status = REJECTED
    /\ Len(audit_log) = 2

(* C2: a REJECTED report carries the score of the layer that rejected it,
   any other report carries layer1*0.33 + layer2*0.33 + layer3*0.34. *)
C2_FinalScore ==
    Returned =>
        LET r == last_call.report
        IN  IF r.final_status = REJECTED
            THEN \E k \in Layers :
                    /\ FirstBelowGate(k)
                    /\ r.final_score = ScoreOf(k)
            ELSE /\ LayersRun(r) = Layers
                 /\ r.final_score * 100 =
                        ScoreOf(1) * 33 + ScoreOf(2) * 33 + ScoreOf(3) * 34

\* a rejection at layer 3 whose final score is that layer's 50, after layers
\* 1 and 2 scored higher
C2_Witness ==
    /\ Returned
    /\ FirstBelowGate(3)
    /\ last_call.report.final_status = REJECTED
    /\ last_call.report.final_score = 50 * Scale

(* C3: every returned report has a final score in [0,100] and one of the
   four statuses, never None. *)
C3_ScoreAndStatusRange ==
    Returned =>
        /\ last_call.report.final_score >= 0
        /\ last_call.report.final_score <= 100 * Scale
        /\ last_call.report.final_status \in {GOLD, SILVER, BRONZE, REJECTED}

\* the empty record: no source, no key, three blank fields; final score 0
C3_Witness ==
    /\ Returned
    /\ last_call.report.data_point = EmptyDict
    /\ last_call.report.final_score = 0
    /\ last_call.report.final_status = REJECTED

(* C4: the final classification gives GOLD from 95, SILVER from 85 up to but
   not 95, BRONZE from 75 up to but not 85 and REJECTED below 75; 95.0 is
   GOLD, 94.999 SILVER, 75.0 BRONZE and 74.999 REJECTED. *)
C4_Bands ==
    last_call.op = "ScoreAndFile" =>
        LET f == last_call.args[1]
            st == last_call.report.final_status
        IN  /\ last_call.report.final_score = f
            /\ (f >= 95 * Scale) = (st = GOLD)
            /\ (f >= 85 * Scale /\ f < 95 * Scale) = (st = SILVER)
            /\ (f >= 75 * Scale /\ f < 85 * Scale) = (st = BRONZE)
            /\ (f < 75 * Scale) = (st = REJECTED)
            /\ (f = 95000 * Milli) => st = GOLD
            /\ (f = 94999 * Milli) => st = SILVER
            /\ (f = 75000 * Milli) => st = BRONZE
            /\ (f = 74999 * Milli) => st = REJECTED

\* the composite 94.999 has been classified SILVER
C4_Witness ==
    /\ last_call.op = "ScoreAndFile"
    /\ last_call.args[1] = 94999 * Milli
    /\ last_call.report.final_status = SILVER

---------------------------------------------------------------------------
(* Properties of a session *)

InSeq(x, q) == \E i \in 1..Len(q) : q[i] = x

\* the audit entries the validation that returned `report` has appended
EntriesOf(report) ==
    [k \in 1..Cardinality(LayersRun(report)) |->
        [layer |-> k,
         data_point |-> IF "address" \in DOMAIN report.data_point
                        THEN report.data_point["address"]
                        ELSE Unknown,
         score |-> LayerResult(report, k).score]]

RECURSIVE EntriesOfAll(_)
EntriesOfAll(reports) ==
    IF reports = <<>> THEN <<>>
    ELSE EntriesOf(Head(reports)) \o EntriesOfAll(Tail(reports))

\* every report returned so far is in the partition of its status, and in no
\* other, and the partitions hold nothing else
Partitioned ==
    /\ \A i \in 1..Len(completed) :
          LET r == completed[i]
          IN  IF r.final_status = REJECTED
              THEN InSeq(r, rejected_data) /\ ~InSeq(r, validation_history)
              ELSE /\ r.final_status \in {GOLD, SILVER, BRONZE}
                   /\ InSeq(r, validation_history)
                   /\ ~InSeq(r, rejected_data)
    /\ Len(rejected_data) + Len(validation_history) = Len(completed)

(* C5: after any sequence of calls every returned report is in exactly one
   partition - rejected_data when REJECTED, validation_history when GOLD,
   SILVER or BRONZE - and no call removes or moves an element of
   rejected_data. *)
C5_OnePartition ==
    [][Partitioned' /\ IsPrefix(rejected_data, rejected_data')]_vars

\* one report of each partition
C5_Witness ==
    /\ Len(rejected_data) = 1
    /\ Len(validation_history) = 1
    /\ rejected_data[1].final_status = REJECTED
    /\ validation_history[1].final_status = BRONZE

(* C6: get_releasable_data returns exactly the returned reports that are GOLD
   or SILVER; a BRONZE report stays in validation_history and is not
   returned, a REJECTED report is not returned. *)
C6_Releasable ==
    LET releasable == get_releasable_data(Self)
    IN  /\ releasable =
               SelectSeq(completed,
                         LAMBDA r : r.final_status = GOLD
                                        \/ r.final_status = SILVER)
        /\ \A i \in 1..Len(completed) :
              /\ completed[i].final_status = BRONZE =>
                    /\ InSeq(completed[i], validation_history)
                    /\ ~InSeq(completed[i], releasable)
              /\ completed[i].final_status = REJECTED =>
                    ~InSeq(completed[i], releasable)

\* a BRONZE report kept beside a releasable GOLD one
C6_Witness ==
    /\ Len(validation_history) = 2
    /\ validation_history[1].final_status = BRONZE
    /\ validation_history[2].final_status = GOLD
    /\ Len(get_releasable_data(Self)) = 1

(* C7: every call leaves the audit log it found as a prefix of the log it
   leaves, and appends, in order, one entry per layer run by each of its
   validations. *)
C7_AppendOnly ==
    [][/\ IsPrefix(audit_log, audit_log')
       /\ audit_log' = audit_log \o EntriesOfAll(last_call'.results)]_vars

\* a batch of two validations, the first rejected by layer 1 and the second
\* run through layer 3, has appended 1 + 3 entries
C7_Witness ==
    /\ last_call.op = "generate_validation_report"
    /\ Len(last_call.results) = 2
    /\ Cardinality(LayersRun(last_call.results[1])) = 1
    /\ Cardinality(LayersRun(last_call.results[2])) = 3
    /\ Len(audit_log) = 4

---------------------------------------------------------------------------
(* Statements the code does not meet *)

(* C8: the audit_trail of a returned report has one entry per layer run in
   the call, in the order 1, 2, 3. *)
C8_ReportAuditTrail ==
    Returned =>
        LET r == last_call.report
        IN  /\ Len(r.audit_trail) = Cardinality(LayersRun(r))
            /\ \A i \in 1..Len(r.audit_trail) : r.audit_trail[i].layer = i

(* C9: validate_data_point never raises, whatever the record: keys absent,
   blank, holding a value that is not a str, or holding a text. *)
C9_NeverRaises ==
    last_call.op = "validate_data_point" =>
        /\ ~last_call.raised
        /\ last_call.report.final_status \in {GOLD, SILVER, BRONZE, REJECTED}

\* a record misses one of the six keys or holds a blank address, city or state
Incomplete(data_point) ==
    \/ DOMAIN data_point # Keys
    \/ \E k \in {"address", "city", "state"} :
          /\ k \in DOMAIN data_point
          /\ data_point[k].type = "str"
          /\ \A i \in 1..Len(data_point[k].chars) :
                data_point[k].chars[i] \in {" ", "\t", "\n"}

(* C10: an incomplete record is scored below 75 by layer 1 and ends REJECTED,
   and get_releasable_data does not return it. *)
C10_IncompleteRejected ==
    (Returned /\ Incomplete(last_call.report.data_point)) =>
        /\ last_call.report.layer_1.score < 75 * Scale
        /\ last_call.report.final_status = REJECTED
        /\ ~InSeq(last_call.report, get_releasable_data(Self))

---------------------------------------------------------------------------
(* Scores of layers 2 and 3 *)

\* the layers have been scored alone on some answers of the two panels
LayersScored == last_call.op = "layers"

\* the number of TRUE answers of a panel
Positive(answers) == Count({i \in DOMAIN answers : answers[i]})

\* the band of the percentage 100 * v / n
Band(v, n) ==
    IF 100 * v >= 95 * n THEN 99 * Scale
    ELSE IF 100 * v >= 80 * n THEN 90 * Scale
    ELSE IF 100 * v >= 60 * n THEN 75 * Scale
    ELSE 50 * Scale

(* C11: layer 2 scores v valid sources of the n consulted by the band of
   100*v/n, 50 below 60% and at v = 0 too; it scores 0 only when n = 0. *)
C11_Layer2Bands ==
    LayersScored =>
        LET ext == last_call.args[1].ext
            score == last_call.report.layer_2.score
        IN  /\ score = Band(Positive(ext), Len(ext))
            /\ score = 0 => Len(ext) = 0

(* C12: whenever the fraction of valid sources equals the fraction of
   findable indices, layers 2 and 3 give the same score. *)
C12_SameBands ==
    LayersScored =>
        LET c == last_call.args[1]
        IN  Positive(c.ext) * Len(c.repro) = Positive(c.repro) * Len(c.ext)
                => last_call.report.layer_2.score
                       = last_call.report.layer_3.score

---------------------------------------------------------------------------
(* Collaborators that raise *)

\* a collaborator raised during the last single call
CollaboratorRaised ==
    /\ last_call.op = "validate_data_point"
    /\ LET c == last_call.args[1]
       IN  \/ Layer2Consulted(c.data_point) /\ _layer_2_raises(c.ext)
           \/ /\ Layer2Consulted(c.data_point)
              /\ ~_layer_2_raises(c.ext)
              /\ Layer3Consulted(c.data_point, c.ext)
              /\ _layer_3_raises(c.repro)

(* C14: a collaborator that raises or times out during layer 2 or 3 counts
   as not valid / not findable; the call still returns a report with one of
   the four statuses, files it in the ledger and logs one entry per layer
   run. *)
C14_FaultsContained ==
    CollaboratorRaised =>
        /\ ~last_call.raised
        /\ last_call.report.final_status \in {GOLD, SILVER, BRONZE, REJECTED}
        /\ InSeq(last_call.report, validation_history \o rejected_data)
        /\ Len(audit_log) = Cardinality(LayersRun(last_call.report))

---------------------------------------------------------------------------
(* Concurrent calls *)

\* the audit entries thread t has appended so far, in the order of its layers
ThreadEntries(t) ==
    LET th == threads[t]
        logged == IF th.pc = "raised" THEN 0 ELSE Len(th.invoked)
    IN  [k \in 1..logged |->
            AuditEntry(k, th.call.data_point, LayerResult(th.report, k))]

RECURSIVE IsSubseq(_, _)
\* s is q with some elements left out
IsSubseq(s, q) ==
    IF s = <<>> THEN TRUE
    ELSE IF q = <<>> THEN FALSE
    ELSE IF Head(s) = Head(q) THEN IsSubseq(Tail(s), Tail(q))
    ELSE IsSubseq(s, Tail(q))

Occurrences(x, q) == Cardinality({i \in 1..Len(q) : q[i] = x})

\* an audit entry with every field the code gives it
WholeEntry(e) ==
    /\ DOMAIN e = {"layer", "data_point", "score"}
    /\ e.layer \in Layers
    /\ e.score \in 0..(100 * Scale)

(* C15: with validate_data_point calls running concurrently on one
   validator, in every interleaving each audit entry is whole, the log holds
   each thread's entries in the order of its layers and nothing else, and
   each returned report is in the ledger exactly once. *)
C15_ConsistentInterleavings ==
    \A entries \in {[t \in Threads |-> ThreadEntries(t)]},
       ledger \in {validation_history \o rejected_data},
       returned \in {{t \in Threads : threads[t].pc = "returned"}} :
        /\ \A i \in 1..Len(audit_log) :
               /\ WholeEntry(audit_log[i])
               /\ Occurrences(audit_log[i], audit_log) =
                      Cardinality({tk \in Threads \X Layers :
                          /\ tk[2] <= Len(entries[tk[1]])
                          /\ entries[tk[1]][tk[2]] = audit_log[i]})
        /\ \A t \in Threads : IsSubseq(entries[t], audit_log)
        /\ \A t \in returned :
               Occurrences(threads[t].report, ledger) =
                   Cardinality({u \in returned :
                                   threads[u].report = threads[t].report})
        /\ Len(ledger) = Cardinality(returned)

\* two calls have run all three layers in alternation, each logging its
\* layer 1 before the other logged its layer 2; one report is filed as
\* validated, the other as rejected
C15_Witness ==
    /\ \A t \in Threads : threads[t].pc = "returned"
    /\ Len(audit_log) = 6
    /\ audit_log[1].layer = 1
    /\ audit_log[2].layer = 1
    /\ audit_log[3].layer = 2
    /\ audit_log[4].layer = 2
    /\ audit_log[3].score # audit_log[4].score
    /\ Len(validation_history) = 1
    /\ Len(rejected_data) = 1

---------------------------------------------------------------------------
(* History independence *)

(* C16: whatever the validator has validated before, each validation
   returns the report, and enters the layers, that a new validator returns
   and enters for the same data point and the same collaborator answers; so
   the same record validated twice with the same answers gives equal
   reports, and no layer result of an earlier call is reused. *)
C16_HistoryIndependent ==
    [][\A i \in 1..Len(last_call'.results) :
          \E out \in {validate_data_point(NewValidator,
                                          last_call'.args[i].data_point,
                                          last_call'.args[i].ext,
                                          last_call'.args[i].repro)} :
              /\ last_call'.results[i] = out.report
              /\ last_call'.invoked[i] = out.invoked
              /\ last_call'.invoked[i] =
                     [k \in 1..Cardinality(LayersRun(out.report)) |-> k]]_vars

\* the same record validated a second time with the same answers: an equal
\* GOLD report, and three more audit entries
C16_Witness ==
    /\ last_call.op = "validate_data_point"
    /\ Len(completed) = 2
    /\ completed[1] = completed[2]
    /\ completed[2].final_status = GOLD
    /\ last_call.invoked = <<<<1, 2, 3>>>>
    /\ Len(audit_log) = 6

---------------------------------------------------------------------------
(* The composite in floats *)

\* the composite of three whole layer scores has been computed alone
Composed == last_call.op = "composite"

(* C17, as stated: the layer scores (80, 90, 85) give the composite 85.0
   exactly, and SILVER. *)
C17_CompositeExact ==
    (Composed /\ last_call.args = <<80, 90, 85>>) =>
        /\ last_call.report.final_score = FloatOfInt(85)
        /\ last_call.report.final_status = SILVER

(* C17, amended: the layer scores (80, 90, 85) give the float next above
   85.0, that is 85 + 2^-46 (85.00000000000001), and SILVER; and for all
   whole layer scores the band of the float composite is the band of the
   exact value of layer_1*0.33 + layer_2*0.33 + layer_3*0.34. *)
C17_CompositeRounded ==
    Composed =>
        /\ last_call.args = <<80, 90, 85>> =>
               /\ last_call.report.final_score =
                      ExactSum(FloatOfInt(85),
                               Limbs(2 ^ (FracLimbs * LimbBits - 46)))
               /\ last_call.report.final_status = SILVER
        /\ last_call.report.final_status =
               DetermineFinalStatus(FinalScore(Num(last_call.args[1]),
                                               Num(last_call.args[2]),
                                               Num(last_call.args[3])))

\* the composite of (80, 90, 85): SILVER, with a score that is not 85.0
C17_Witness ==
    /\ Composed
    /\ last_call.args = <<80, 90, 85>>
    /\ last_call.report.final_status = SILVER
    /\ last_call.report.final_score # FloatOfInt(85)
    /\ FinalScore(Num(80), Num(90), Num(85)) = Num(85)

---------------------------------------------------------------------------
(* Scenarios *)

\* the value of key k is a str that is not blank
Filled(data_point, k) ==
    /\ k \in DOMAIN data_point
    /\ data_point[k].type = "str"
    /\ \E i \in 1..Len(data_point[k].chars) :
          data_point[k].chars[i] \notin Whitespace

\* the value of key k is a str that is empty or all white space
Blank(data_point, k) ==
    /\ k \in DOMAIN data_point
    /\ data_point[k].type = "str"
    /\ \A i \in 1..Len(data_point[k].chars) :
          data_point[k].chars[i] \in Whitespace

\* the source is a str holding a name of the allow-list
Listed(data_point) ==
    /\ "source" \in DOMAIN data_point
    /\ data_point["source"].type = "str"
    /\ \E i \in 1..Len(authoritative_sources) :
          In(authoritative_sources[i], data_point["source"])

\* the source is a str holding no name of the allow-list
Unlisted(data_point) ==
    /\ "source" \in DOMAIN data_point
    /\ data_point["source"].type = "str"
    /\ ~Listed(data_point)

(* C18: a record with a listed source and its six fields filled, with all
   five sources valid and all seven indices findable: layer 1 scores
   (99 + 100 + 90) / 3 (96.3 to one decimal), layers 2 and 3 score 99, the
   composite is 98.12 (98.1 to one decimal), the status is GOLD, the call
   has appended three audit entries and get_releasable_data returns the
   report. *)
C18_GoldScenario ==
    LET c == last_call.args[1]
        r == last_call.report
    IN  (/\ Returned
         /\ Listed(c.data_point)
         /\ \A k \in Keys : Filled(c.data_point, k)
         /\ c.ext = HardcodedExt
         /\ c.repro = HardcodedRepro) =>
            /\ r.layer_1.score * 3 = Num(99 + 100 + 90)
            /\ r.layer_1.score > 9625 * (Scale \div 100)
            /\ r.layer_1.score < 9635 * (Scale \div 100)
            /\ r.layer_2.score = Num(99)
            /\ r.layer_3.score = Num(99)
            /\ r.final_score = 9812 * (Scale \div 100)
            /\ r.final_status = GOLD
            /\ Len(audit_log) = 3
            /\ InSeq(r, get_releasable_data(Self))

\* such a record validated: GOLD and releasable
C18_Witness ==
    /\ Returned
    /\ Listed(last_call.args[1].data_point)
    /\ \A k \in Keys : Filled(last_call.args[1].data_point, k)
    /\ last_call.args[1].ext = HardcodedExt
    /\ last_call.args[1].repro = HardcodedRepro
    /\ last_call.report.final_status = GOLD
    /\ get_releasable_data(Self) = <<last_call.report>>

(* C19: for any record with a blank address and an unlisted source, the call
   returns a report: source authenticity is 0, data quality is at most 40,
   layer 1 scores below 75, the report is REJECTED with layer 1's score,
   layers 2 and 3 are not entered and the call has appended exactly one
   audit entry. *)
C19_BlankAddressUnlistedSource ==
    LET c == last_call.args[1]
        r == last_call.report
    IN  (/\ last_call.op = "validate_data_point"
         /\ Blank(c.data_point, "address")
         /\ Unlisted(c.data_point)) =>
            /\ ~last_call.raised
            /\ r.layer_1.checks.source_authenticity.score = 0
            /\ r.layer_1.checks.data_quality.score <= Num(40)
            /\ r.layer_1.score < Num(75)
            /\ r.final_status = REJECTED
            /\ r.final_score = r.layer_1.score
            /\ last_call.invoked = <<<<1>>>>
            /\ LayersRun(r) = {1}
            /\ Len(audit_log) = 1
            /\ rejected_data = <<r>>
            /\ validation_history = <<>>

\* a record with a blank address, an unlisted source and every other field
\* filled: layer 1 scores (0 + 100 + 40) / 3 and the call logs one entry
C19_Witness ==
    /\ Returned
    /\ Blank(last_call.args[1].data_point, "address")
    /\ Unlisted(last_call.args[1].data_point)
    /\ last_call.report.layer_1.score * 3 = Num(0 + 100 + 40)
    /\ last_call.report.final_status = REJECTED
    /\ Len(audit_log) = 1

(* C20: with exactly 3 of the 5 sources valid, layer 2 finds 60% agreement
   and scores 75, which passes the gate: layer 3 is entered; and when layer
   3 passes too, the call has appended three audit entries, the report is
   not REJECTED and its final score is the weighted composite of the three
   layer scores. *)
C20_GateIsStrict ==
    LET c == last_call.args[1]
        r == last_call.report
    IN  (Returned /\ Scored(2) /\ Positive(c.ext) = 3) =>
            /\ r.layer_2.agreement_percentage = Num(60)
            /\ r.layer_2.score = Num(75)
            /\ last_call.invoked = <<<<1, 2, 3>>>>
            /\ LayersRun(r) = Layers
            /\ Len(audit_log) = 3
            /\ r.layer_3.score >= Num(75) =>
                   /\ r.final_status \in {GOLD, SILVER, BRONZE}
                   /\ r.final_score * 100 =
                          r.layer_1.score * 33 + Num(75) * 33
                              + r.layer_3.score * 34
                   /\ validation_history = <<r>>

\* 3 of 5 sources valid and 5 of 7 indices findable: layers 2 and 3 both
\* score 75 and the report is filed with the composite, BRONZE
C20_Witness ==
    /\ Returned
    /\ Scored(2)
    /\ Positive(last_call.args[1].ext) = 3
    /\ last_call.report.layer_2.score = Num(75)
    /\ last_call.report.layer_3.score = Num(75)
    /\ last_call.report.final_status = BRONZE
    /\ last_call.report.final_score > Num(75)
    /\ Len(audit_log) = 3

---------------------------------------------------------------------------
(* The run of one call *)

\* where thread t's call stands
RunState(th) ==
    CASE th.pc = "idle" -> "NOT_STARTED"
      [] th.pc \in {"layer", "gate"} /\ Len(th.invoked) = 0 -> "LAYER1"
      [] th.pc = "layer" ->
            <<"LAYER1", "LAYER2", "LAYER3">>[Len(th.invoked) + 1]
      [] th.pc = "gate" -> <<"LAYER1", "LAYER2", "LAYER3">>[Len(th.invoked)]
      [] th.pc = "file" -> "LAYER3"
      [] th.pc = "returned" /\ th.report.final_status = REJECTED -> "REJECTED"
      [] th.pc = "returned" -> "SCORED"
      [] th.pc = "raised" -> "RAISED"

\* the steps of the run of a call
RunSteps ==
    {<<"NOT_STARTED", "LAYER1">>, <<"LAYER1", "LAYER2">>,
     <<"LAYER2", "LAYER3">>, <<"LAYER3", "SCORED">>,
     <<"LAYER1", "REJECTED">>, <<"LAYER2", "REJECTED">>,
     <<"LAYER3", "REJECTED">>}

(* C21: the run of a call goes LAYER1 -> LAYER2 -> LAYER3 -> SCORED, with
   REJECTED reachable from each of the three layers; the layers are entered
   in that order and none twice; a call that has ended has ended SCORED or
   REJECTED; and the report of an ended call keeps its final_score and
   final_status. *)
C21_LinearRun ==
    [][\A t \in Threads :
          LET before == threads[t]
              after == threads'[t]
          IN  /\ \/ RunState(after) = RunState(before)
                 \/ <<RunState(before), RunState(after)>> \in RunSteps
              /\ \/ after.invoked = before.invoked
                 \/ after.invoked =
                        Append(before.invoked, Len(before.invoked) + 1)
              /\ RunState(before) \in {"SCORED", "REJECTED"} =>
                     /\ after.report.final_score = before.report.final_score
                     /\ after.report.final_status
                            = before.report.final_status]_vars

---------------------------------------------------------------------------
(* The sub-checks of layer 1 *)

\* the sub-check results in the layer-1 result of the last returned report
ChecksOf(report) == report.layer_1.checks

\* the fields of the content-sanity sub-check that are present but blank
BlankFields(data_point) ==
    {k \in {"address", "city", "state"} : Blank(data_point, k)}

(* C22: the content-sanity score is 90 less 50 for each of address, city and
   state that is present in the record but blank, floored at 0, and an absent
   field deducts nothing: 90 with no blank field, 40 with one, 0 with two or
   three. *)
C22_OnlyBlankDeducts ==
    Returned =>
        LET blanks == Count(BlankFields(last_call.args[1].data_point))
        IN  ChecksOf(last_call.report).data_quality.score =
                CASE blanks = 0 -> Num(90)
                  [] blanks = 1 -> Num(40)
                  [] OTHER -> Num(0)

\* the data point of the last structural-completeness check
Checked == last_call.args[1].data_point

\* data_point without the keys that are not required
RequiredOnly(data_point) ==
    [k \in DOMAIN data_point \cap Keys |-> data_point[k]]

(* C23: the structural-completeness score is 100 * k / 6, k being the number
   of the six required keys present in the record, whatever their values; a
   key that is not one of the six changes nothing. *)
C23_KeyPresence ==
    last_call.op = "_check_data_integrity" =>
        /\ last_call.report.score * 6 =
               Num(100) * Count(DOMAIN Checked \cap Keys)
        /\ last_call.report.score =
               _check_data_integrity(RequiredOnly(Checked)).score

\* four of the six keys, one of them None and one empty, and an extra key
C23_Witness ==
    /\ last_call.op = "_check_data_integrity"
    /\ DOMAIN Checked = {"address", "city", "zip", "source", "county"}
    /\ Checked["city"] = PyNone
    /\ Checked["address"] = Str(<<>>)
    /\ last_call.report.score * 3 = Num(200)

(* C24: the layer-1 score of a report is the unweighted mean of the scores
   of its three sub-checks, and the score of every layer the report holds
   lies in [0, 100]. *)
C24_MeanAndRange ==
    Returned =>
        LET report == last_call.report
            checks == ChecksOf(report)
        IN  /\ 3 * report.layer_1.score =
                   checks.source_authenticity.score
                       + checks.data_integrity.score
                       + checks.data_quality.score
            /\ \A k \in LayersRun(report) :
                   /\ LayerResult(report, k).score >= Num(0)
                   /\ LayerResult(report, k).score <= Num(100)

\* a report of three layers whose sub-checks score 99, 500/6 and 90
C24_Witness ==
    /\ Returned
    /\ LayersRun(last_call.report) = Layers
    /\ ChecksOf(last_call.report).source_authenticity.score = Num(99)
    /\ ChecksOf(last_call.report).data_integrity.score * 6 = Num(500)
    /\ ChecksOf(last_call.report).data_quality.score = Num(90)
    /\ last_call.report.layer_1.score * 18 = Num(99 * 6 + 500 + 90 * 6)

---------------------------------------------------------------------------
(* Rejections *)

\* the report ended at the gate of layer k: it holds layers 1..k, layer k
\* scored below 75 and its score is the final score
EarlyExit(report, k) ==
    /\ LayersRun(report) = 1..k
    /\ LayerResult(report, k).score < Num(75)
    /\ report.final_score = LayerResult(report, k).score

(* C25: when the three layer scores are all >= 75 the composite is >= 75 and
   the status is not REJECTED; no report is in both rejected_data and
   validation_history; and every REJECTED report ended at the gate of a
   layer. *)
C25_RejectedOnlyAtGate ==
    Returned =>
        LET report == last_call.report
        IN  /\ (/\ LayersRun(report) = Layers
                /\ \A k \in Layers : LayerResult(report, k).score >= Num(75))
                   => /\ report.final_score >= Num(75)
                      /\ report.final_status # REJECTED
            /\ ~(InSeq(report, rejected_data)
                   /\ InSeq(report, validation_history))
            /\ report.final_status = REJECTED =>
                   \E k \in Layers : EarlyExit(report, k)

\* layers 2 and 3 at their lowest passing score, 75, filed as BRONZE with a
\* composite under 80
C25_Witness ==
    /\ Returned
    /\ LayersRun(last_call.report) = Layers
    /\ last_call.report.layer_2.score = Num(75)
    /\ last_call.report.layer_3.score = Num(75)
    /\ last_call.report.final_score < Num(80)
    /\ last_call.report.final_status = BRONZE
    /\ InSeq(last_call.report, validation_history)
    /\ rejected_data = <<>>

\* the record has no source, or a source holding no name of the allow-list
NoListedSource(data_point) ==
    \/ "source" \notin DOMAIN data_point
    \/ Unlisted(data_point)

(* C26: a record whose source is absent or unlisted never passes layer 1,
   whatever its other fields: the call returns a report whose layer-1 score
   is at most (0 + 100 + 90) / 3, REJECTED, with exactly one audit entry
   appended and layers 2 and 3 not consulted. *)
C26_UnlistedNeverPasses ==
    LET c == last_call.args[1]
        r == last_call.report
    IN  (/\ last_call.op = "validate_data_point"
         /\ NoListedSource(c.data_point)) =>
            /\ ~last_call.raised
            /\ r.layer_1.score * 3 <= Num(0 + 100 + 90)
            /\ r.layer_1.score < Num(75)
            /\ r.final_status = REJECTED
            /\ last_call.invoked = <<<<1>>>>
            /\ LayersRun(r) = {1}
            /\ Len(audit_log) = 1

(* C27: with the collaborators of the source (five verifiers valid, seven
   indices findable), every call on any record returns a report in which
   layers 2 and 3, when run, score 99; the status is GOLD, SILVER or
   REJECTED, never BRONZE; a rejection is at layer 1; and the call has
   appended exactly 1 or exactly 3 audit entries. *)
C27_StubsNeverBronze ==
    last_call.op = "validate_data_point" =>
        LET r == last_call.report
        IN  /\ ~last_call.raised
            /\ \A k \in LayersRun(r) \ {1} :
                   LayerResult(r, k).score = Num(99)
            /\ r.final_status \in {GOLD, SILVER, REJECTED}
            /\ r.final_status = REJECTED => EarlyExit(r, 1)
            /\ Len(audit_log) \in {1, 3}
            /\ Len(audit_log) = Cardinality(LayersRun(r))

---------------------------------------------------------------------------
(* The orchestration core *)

\* the coroutines running op at position pc
Running(op, pc) ==
    {c \in Coroutines : coroutines[c].op = op /\ coroutines[c].pc = pc}

\* initialize() has completed and nothing has run since
JustInitialized ==
    /\ Running("initialize", "done") # {}
    /\ \A c \in Coroutines : coroutines[c].op \in {"", "initialize"}

(* C28: when initialize() has completed, what its three steps built is all
   there: status is ACTIVE, memory holds the credentials _load_credentials
   stored, and the six agents are registered. *)
C28_InitializeKeepsAll ==
    JustInitialized =>
        /\ aether.status = ACTIVE
        /\ "credentials" \in DOMAIN aether.memory
        /\ aether.memory["credentials"] = credentials
        /\ DOMAIN aether.agents = Range(agent_types)
        /\ \A a \in DOMAIN aether.agents :
               aether.agents[a].status = "REGISTERED"

\* the executions begun and not yet returned
InFlight == Running("execute_lead_generation", "sleeping")

(* C29: in every interleaving of execute_lead_generation coroutines on one
   core, status is PROCESSING while at least one execution is in flight, and
   execution_log holds exactly one entry per completed execution. *)
C29_ProcessingWhileInFlight ==
    /\ InFlight # {} => aether.status = PROCESSING
    /\ Len(aether.execution_log) =
           Cardinality(Running("execute_lead_generation", "done"))

---------------------------------------------------------------------------
(* The watcher *)

\* the output is a run of cycles, each one print of new names, one run of
\* the ingest script and then one run of the clean script, the last cycle
\* being as far as the loop is in it
InCycles(output, pc) ==
    /\ \A i \in 1..Len(output) :
          CASE i % 3 = 1 -> /\ output[i].event = "print"
                            /\ output[i].names # <<>>
            [] i % 3 = 2 -> /\ output[i].event = "run"
                            /\ output[i].script = INGEST_SCRIPT
            [] i % 3 = 0 -> /\ output[i].event = "run"
                            /\ output[i].script = CLEAN_SCRIPT
    /\ CASE Len(output) % 3 = 1 -> pc = "ingest"
         [] Len(output) % 3 = 2 -> pc = "clean"
         [] Len(output) % 3 = 0 -> pc \in {"mark", "sleep", "list"}

\* the cycles a file name has triggered
CyclesOf(name, output) ==
    {i \in 1..Len(output) :
        /\ output[i].event = "print"
        /\ name \in Range(output[i].names)}

(* C30: in the watcher loop seen only grows; a poll goes on to an ingest
   run and then a clean run, in that order, if and only if its listing holds
   a file name that is not in seen, and the scripts run in no other case;
   after the iteration every listed name is in seen; and a file name
   triggers at most one cycle, whatever the scripts return. *)
C30_OneCyclePerFile ==
    [][/\ seen \subseteq seen'
       /\ (watcher.pc = "list" /\ watcher'.pc # "list") =>
              /\ Range(watcher'.files) =
                     {p \in directory.entries : p.suffix = ".json"}
              /\ watcher'.pc = "ingest" <=>
                     \E p \in Range(watcher'.files) : Name(p) \notin seen
              /\ watcher'.pc # "ingest" => watcher'.pc = "sleep"
       /\ InCycles(watcher'.output, watcher'.pc)
       /\ watcher'.pc = "sleep" =>
              \A p \in Range(watcher'.files) : Name(p) \in seen'
       /\ \A p \in Range(Entries) :
              Cardinality(CyclesOf(Name(p), watcher'.output)) <= 1]_vars

\* two cycles done, the first with a failed ingest: a.json, which triggered
\* the first and is still in the directory, is not among the names of the
\* second
C30_Witness ==
    /\ watcher.pc = "sleep"
    /\ Len(watcher.output) = 6
    /\ watcher.output[1].names = <<Name(Entries[1])>>
    /\ watcher.output[2].returncode = 1
    /\ watcher.output[4].names = <<Name(Entries[2])>>
    /\ Entries[1] \in directory.entries
    /\ watcher.files = <<Entries[1], Entries[2]>>
    /\ seen = {Name(Entries[1]), Name(Entries[2])}

=============================================================================
